---------------------------- MODULE Spec2Model ----------------------------
(***************************************************************************)
(* Budget allocation optimisation engine of psvk2003/Operational-Research. *)
(*                                                                         *)
(* opti.py loads the BudgetData table once into a module-level data frame  *)
(* and offers six scenario functions; each builds a linear program with    *)
(* OR-tools (one NumVar per ledger row, objective = maximise the sum of    *)
(* the variables of budget_vars, a list of constraints), solves it and     *)
(* saves the allocation.  BudgetSenarioAnalysis.py has the same engine as  *)
(* a class with four composable scenario methods and the batch             *)
(* analyze_all_scenarios over them.  app.py exposes the six opti scenarios *)
(* through the run_scenario request handler.  Both programs load the       *)
(* ledger first, coercing the three budget columns with to_numeric and     *)
(* fillna(0).                                                              *)
(*                                                                         *)
(* Specifications: Spec (one scenario run on a loaded ledger), SpecSeq     *)
(* (runs one after the other in one process), SpecBatch (the batch),       *)
(* SpecLoad (a process from its start, the load included), SpecCoerce (the *)
(* load on tables with every kind of cell) and SpecWeb (requests to        *)
(* run_scenario).                                                          *)
(*                                                                         *)
(* Amounts are whole numbers.  Every figure of a ledger is a multiple of   *)
(* Unit, which is chosen so that every limit the scenarios derive          *)
(* (1.1 x, 1.05 x, 0.1 x, 0.3 x, 0.5 x, a mean over at most MaxRows rows)  *)
(* is again a whole number: no rounding happens anywhere in the model.     *)
(* Figures are non-negative, as the data model of the specification has    *)
(* it (prior_actual, current_appropriation, proposed_budget >= 0).         *)
(*                                                                         *)
(* The LP backend is outside the repository.  It is modelled by its        *)
(* contract: Solve() answers INFEASIBLE exactly when no point satisfies    *)
(* the bounds and the constraints, OPTIMAL with some objective-maximal     *)
(* point otherwise, and ABNORMAL when the backend itself fails.  Every     *)
(* constraint matrix the scenarios build is the union of two laminar       *)
(* families (all / department / single variable, and category), hence      *)
(* totally unimodular: the vertices of the feasible region lie on the      *)
(* lattice spanned by the greatest common divisor of the bounds and        *)
(* limits, and the model searches that lattice.                            *)
(***************************************************************************)
EXTENDS Integers, Sequences, FiniteSets, TLC

VARIABLES
    df,           \* the loaded ledger (operating_budget_df / self.df)
    runsLeft,     \* operations still allowed in this behaviour
    call,         \* the engine function the last operation ran ("none" at start)
    solver,       \* the LP the last operation built: its variables and constraints
    budget_vars,  \* the dict (program, category) -> variable of that LP
    status,       \* what solver.Solve() returned in the last operation
    values,       \* solution_value() of every variable of budget_vars
    csv,          \* optimized_budget_allocation_<name>.csv, per scenario name
    cwd_plots,    \* scenario names whose two .png files opti.plot_results saved
    result_df,    \* the data frame solve_scenario returned
    plot_dir,     \* scenario names whose plots are in static/plots (app.py)
    response,     \* the answer of the last run_scenario request
    source,       \* the BudgetData table as stored, and whether it can be reached
    load,         \* how far loading got: "pending", "loaded", "exited", "raised"
    results,      \* the dict analyze_all_scenarios fills: name -> returned frame
    solved,       \* what Solve() returned for each scenario of the batch
    batch         \* how analyze_all_scenarios ended

vars == <<df, runsLeft, call, solver, budget_vars, status, values,
          csv, cwd_plots, result_df, plot_dir, response,
          source, load, results, solved, batch>>

loadVars == <<source, load>>

batchVars == <<results, solved, batch>>

engineVars == <<call, solver, budget_vars, status, values, csv, cwd_plots>>

-----------------------------------------------------------------------------
(* Bounds of the model *)

MaxRows == 2
MaxUnits == 1
MaxRuns == 1
MaxRequests == 2

-----------------------------------------------------------------------------
(* Arithmetic helpers *)

RECURSIVE GCD(_, _)
GCD(a, b) == IF b = 0 THEN a ELSE GCD(b, a % b)

LCM(a, b) == (a * b) \div GCD(a, b)

RECURSIVE LcmUpTo(_)
LcmUpTo(n) == IF n <= 1 THEN 1 ELSE LCM(n, LcmUpTo(n - 1))

RECURSIVE GcdOfSet(_)
GcdOfSet(S) ==
    IF S = {} THEN 0
    ELSE LET e == CHOOSE e \in S : TRUE IN GCD(e, GcdOfSet(S \ {e}))

RECURSIVE SumOver(_, _)
SumOver(f, S) ==
    IF S = {} THEN 0
    ELSE LET e == CHOOSE e \in S : TRUE IN f[e] + SumOver(f, S \ {e})

SetMin(S) == CHOOSE m \in S : \A e \in S : m <= e
SetMax(S) == CHOOSE m \in S : \A e \in S : e <= m

RECURSIVE SortedSeq(_)
SortedSeq(S) ==
    IF S = {} THEN <<>> ELSE <<SetMin(S)>> \o SortedSeq(S \ {SetMin(S)})

(* The multipliers are decimal fractions with denominator dividing 20; the *)
(* category mean divides by a row count of at most MaxRows.                *)
Unit == LCM(4 * 5, LcmUpTo(MaxRows))

(* num/den of x, exact on every figure the model produces *)
Times(num, den, x) == (num * x) \div den

-----------------------------------------------------------------------------
(* The ledger *)

Depts == {"DeptX", "DeptY"}
Programs == {"Public Safety", "Parks"}
Categories == {"Personnel", "Supplies"}

(* groupby(...) iterates its groups in sorted key order *)
DeptOrder == <<"DeptX", "DeptY">>
CategoryOrder == <<"Personnel", "Supplies">>

Amounts == {u * Unit : u \in 0..MaxUnits}

Row == [Dept : Depts, Program : Programs, ExpenseCategory : Categories,
        FY25Budget : Amounts, FY24Appropriation : Amounts,
        FY23ActualExpense : Amounts]

Ledgers == UNION {[1..n -> Row] : n \in 1..MaxRows}

Rows(d) == 1..Len(d)

KeyOf(row) == <<row.Program, row.ExpenseCategory>>

Keys(d) == {KeyOf(d[i]) : i \in Rows(d)}

ColumnSum(d, col, rows) == SumOver([i \in Rows(d) |-> d[i][col]], rows)

-----------------------------------------------------------------------------
(* Derived limits: df.groupby(col)[figure].sum() / .mean() / df[figure].sum() *)

DeptsOf(d) == {d[i].Dept : i \in Rows(d)}
CategoriesOf(d) == {d[i].ExpenseCategory : i \in Rows(d)}

GroupRows(d, col, g) == {i \in Rows(d) : d[i][col] = g}

GroupSum(d, col, figure) ==
    [g \in {d[i][col] : i \in Rows(d)} |-> ColumnSum(d, figure, GroupRows(d, col, g))]

GroupMean(d, col, figure) ==
    [g \in {d[i][col] : i \in Rows(d)} |->
        ColumnSum(d, figure, GroupRows(d, col, g)) \div Cardinality(GroupRows(d, col, g))]

(* the groups of a groupby, in the order the loop visits them *)
GroupSeq(order, groups) == SelectSeq(order, LAMBDA g : g \in groups)

(* DeptOfKey reading the last matching row, .values[-1] *)
DeptOfKey_LastRow(d, key) == d[SetMax({i \in Rows(d) : KeyOf(d[i]) = key})].Dept

(* df[(df.Program == program) & (df.ExpenseCategory == category)]['Dept'].values[0] *)
DeptOfKey(d, key) == d[SetMin({i \in Rows(d) : KeyOf(d[i]) = key})].Dept

-----------------------------------------------------------------------------
(* initialize_solver: one NumVar per ledger ROW; the dict keeps, for a key *)
(* that occurs in several rows, the variable of the last of them.          *)

(* NewSolver on a solver object kept from the run before, its rows still   *)
(* in it                                                                   *)
NewSolver_Reused(d) ==
    [vars |-> [i \in Rows(d) |->
                [name |-> KeyOf(d[i]), lb |-> 0, ub |-> d[i].FY25Budget]],
     constraints |-> solver.constraints]

NewSolver(d) ==
    [vars |-> [i \in Rows(d) |->
                [name |-> KeyOf(d[i]), lb |-> 0, ub |-> d[i].FY25Budget]],
     constraints |-> <<>>]

NewBudgetVars(d) ==
    [k \in Keys(d) |-> SetMax({i \in Rows(d) : KeyOf(d[i]) = k})]

(* the keys of budget_vars in dict (insertion) order *)
KeyOrder(d) ==
    LET firsts == {SetMin({i \in Rows(d) : KeyOf(d[i]) = k}) : k \in Keys(d)}
        idx == SortedSeq(firsts)
    IN  [n \in 1..Len(idx) |-> KeyOf(d[idx[n]])]

(* upper bound of the variable budget_vars holds for a key *)
UpperBound(lp, bv, k) == lp.vars[bv[k]].ub

-----------------------------------------------------------------------------
(* Constraints.  Every constraint the scenarios add is a plain sum of      *)
(* variables of budget_vars compared with a number; family and group       *)
(* record the loop and the loop key that added it.                         *)

Constraint(family, group, keys, sense, rhs) ==
    [family |-> family, group |-> group, vars |-> keys, sense |-> sense, rhs |-> rhs]

(* solver.Add(sum(budget_vars[...] for ... in budget_vars) <= total) *)
TotalCap(d, bv) ==
    <<Constraint("total", "all", DOMAIN bv, "<=",
                 ColumnSum(d, "FY25Budget", Rows(d)))>>

(* DeptCaps with the limits taken from the proposed budget instead of the  *)
(* appropriation                                                           *)
DeptCaps_OnBudget(d, bv, num, den) ==
    LET dept_limits == GroupSum(d, "Dept", "FY25Budget")
        depts == GroupSeq(DeptOrder, DOMAIN dept_limits)
    IN  [n \in 1..Len(depts) |->
            Constraint("dept", depts[n],
                       {k \in DOMAIN bv : DeptOfKey(d, k) = depts[n]},
                       "<=", Times(num, den, dept_limits[depts[n]]))]

(* DeptCaps with a key counted in every department that has a row of it *)
DeptCaps_AnyRow(d, bv, num, den) ==
    LET dept_limits == GroupSum(d, "Dept", "FY24Appropriation")
        depts == GroupSeq(DeptOrder, DOMAIN dept_limits)
    IN  [n \in 1..Len(depts) |->
            Constraint("dept", depts[n],
                       {k \in DOMAIN bv :
                            \E i \in Rows(d) : KeyOf(d[i]) = k /\ d[i].Dept = depts[n]},
                       "<=", Times(num, den, dept_limits[depts[n]]))]

(* the department loop of opti.scenario_2 / 4 / 5: one Add per entry of    *)
(* dept_limits, whether or not a variable resolves to that department      *)
DeptCaps(d, bv, num, den) ==
    LET dept_limits == GroupSum(d, "Dept", "FY24Appropriation")
        depts == GroupSeq(DeptOrder, DOMAIN dept_limits)
    IN  [n \in 1..Len(depts) |->
            Constraint("dept", depts[n],
                       {k \in DOMAIN bv : DeptOfKey(d, k) = depts[n]},
                       "<=", Times(num, den, dept_limits[depts[n]]))]

(* the category loop of opti.scenario_3 / 6.  In                           *)
(*   sum(budget_vars[(program, category)]                                  *)
(*       for (program, category) in budget_vars if category == category)   *)
(* the generator's own target rebinds category, so the filter compares a   *)
(* key's category with itself.                                             *)
CategoryCaps(d, bv, num, den) ==
    LET total_fy25_budget == ColumnSum(d, "FY25Budget", Rows(d))
        category_limits == GroupSum(d, "ExpenseCategory", "FY25Budget")
        cats == GroupSeq(CategoryOrder, DOMAIN category_limits)
    IN  [n \in 1..Len(cats) |->
            Constraint("category", cats[n],
                       {k \in DOMAIN bv : LET category == k[2] IN category = category},
                       "<=", Times(num, den, total_fy25_budget))]

-----------------------------------------------------------------------------
(* The six scenario functions of opti.py: the constraints each one adds    *)

scenario_1_constraints(d, bv) == TotalCap(d, bv)

scenario_2_constraints(d, bv) == TotalCap(d, bv) \o DeptCaps(d, bv, 11, 10)

scenario_3_constraints(d, bv) == TotalCap(d, bv) \o CategoryCaps(d, bv, 1, 10)

(* scenario_4 with the 110% multiplier of scenario_2 left in *)
scenario_4_constraints_At110(d, bv) == TotalCap(d, bv) \o DeptCaps(d, bv, 11, 10)

scenario_4_constraints(d, bv) == TotalCap(d, bv) \o DeptCaps(d, bv, 1, 1)

(* scenario_5 with the multiplier 0.95 for 1.05 *)
scenario_5_constraints_At95(d, bv) == TotalCap(d, bv) \o DeptCaps(d, bv, 19, 20)

scenario_5_constraints(d, bv) == TotalCap(d, bv) \o DeptCaps(d, bv, 21, 20)

scenario_6_constraints(d, bv) == TotalCap(d, bv) \o CategoryCaps(d, bv, 3, 10)

ScenarioNames ==
    {"Scenario_1", "Scenario_2", "Scenario_3", "Scenario_4", "Scenario_5", "Scenario_6"}

OptiConstraints(name, d, bv) ==
    CASE name = "Scenario_1" -> scenario_1_constraints(d, bv)
      [] name = "Scenario_2" -> scenario_2_constraints(d, bv)
      [] name = "Scenario_3" -> scenario_3_constraints(d, bv)
      [] name = "Scenario_4" -> scenario_4_constraints(d, bv)
      [] name = "Scenario_5" -> scenario_5_constraints(d, bv)
      [] name = "Scenario_6" -> scenario_6_constraints(d, bv)

-----------------------------------------------------------------------------
(* The four scenario methods of BudgetScenarioAnalyzer                     *)

(* the department loop of BudgetScenarioAnalyzer.scenario_1: limits are    *)
(* FY23ActualExpense totals and a department without variables is skipped  *)
AnalyzerDeptCaps(d, bv) ==
    LET department_limits == GroupSum(d, "Dept", "FY23ActualExpense")
        depts == GroupSeq(DeptOrder, DOMAIN department_limits)
        withVars == SelectSeq(depts,
                        LAMBDA g : {k \in DOMAIN bv : DeptOfKey(d, k) = g} # {})
    IN  [n \in 1..Len(withVars) |->
            Constraint("dept", withVars[n],
                       {k \in DOMAIN bv : DeptOfKey(d, k) = withVars[n]},
                       "<=", department_limits[withVars[n]])]

(* the category loop of BudgetScenarioAnalyzer.scenario_2: the limit is    *)
(* the mean FY23ActualExpense of the category's rows                       *)
AnalyzerCategoryCaps(d, bv) ==
    LET category_limits == GroupMean(d, "ExpenseCategory", "FY23ActualExpense")
        cats == GroupSeq(CategoryOrder, DOMAIN category_limits)
        programs == {d[i].Program : i \in Rows(d)}
        category_vars(c) == {k \in DOMAIN bv : k[1] \in programs /\ k[2] = c}
        withVars == SelectSeq(cats, LAMBDA c : category_vars(c) # {})
    IN  [n \in 1..Len(withVars) |->
            Constraint("category", withVars[n], category_vars(withVars[n]),
                       "<=", category_limits[withVars[n]])]

key_programs == <<"Mayor's Administration", "Public Safety">>

(* ProgramFloors with the floor taken from the prior actuals *)
ProgramFloors_OnActuals(d, bv, program) ==
    LET program_data == SortedSeq({i \in Rows(d) : d[i].Program = program})
        guarded == SelectSeq(program_data,
                       LAMBDA i : <<program, d[i].ExpenseCategory>> \in DOMAIN bv)
    IN  [n \in 1..Len(guarded) |->
            Constraint("floor", program,
                       {<<program, d[guarded[n]].ExpenseCategory>>},
                       ">=", Times(1, 2, d[guarded[n]].FY23ActualExpense))]

(* ProgramFloors with min_funding_perc a quarter *)
ProgramFloors_AtQuarter(d, bv, program) ==
    LET program_data == SortedSeq({i \in Rows(d) : d[i].Program = program})
        guarded == SelectSeq(program_data,
                       LAMBDA i : <<program, d[i].ExpenseCategory>> \in DOMAIN bv)
    IN  [n \in 1..Len(guarded) |->
            Constraint("floor", program,
                       {<<program, d[guarded[n]].ExpenseCategory>>},
                       ">=", Times(1, 4, d[guarded[n]].FY24Appropriation))]

(* the rows of one key program, in ledger order, each adding               *)
(* budget_vars[(program, category)] >= 0.5 * FY24Appropriation of the row  *)
ProgramFloors(d, bv, program) ==
    LET program_data == SortedSeq({i \in Rows(d) : d[i].Program = program})
        guarded == SelectSeq(program_data,
                       LAMBDA i : <<program, d[i].ExpenseCategory>> \in DOMAIN bv)
    IN  [n \in 1..Len(guarded) |->
            Constraint("floor", program,
                       {<<program, d[guarded[n]].ExpenseCategory>>},
                       ">=", Times(1, 2, d[guarded[n]].FY24Appropriation))]

RECURSIVE FloorsFrom(_, _, _)
FloorsFrom(d, bv, n) ==
    IF n > Len(key_programs) THEN <<>>
    ELSE ProgramFloors(d, bv, key_programs[n]) \o FloorsFrom(d, bv, n + 1)

KeyProgramFloors(d, bv) == FloorsFrom(d, bv, 1)

Analyzer_scenario_1(d, bv) == TotalCap(d, bv) \o AnalyzerDeptCaps(d, bv)

(* scenario_2 written out anew, without the call of scenario_1 *)
Analyzer_scenario_2_Alone(d, bv) == TotalCap(d, bv) \o AnalyzerCategoryCaps(d, bv)

Analyzer_scenario_2(d, bv) == Analyzer_scenario_1(d, bv) \o AnalyzerCategoryCaps(d, bv)

Analyzer_scenario_3(d, bv) == Analyzer_scenario_1(d, bv) \o KeyProgramFloors(d, bv)

Analyzer_scenario_4(d, bv) == Analyzer_scenario_2(d, bv) \o KeyProgramFloors(d, bv)

AnalyzerScenarios == {"Basic", "Category Limits", "Key Programs", "Combined"}

AnalyzerConstraints(name, d, bv) ==
    CASE name = "Basic" -> Analyzer_scenario_1(d, bv)
      [] name = "Category Limits" -> Analyzer_scenario_2(d, bv)
      [] name = "Key Programs" -> Analyzer_scenario_3(d, bv)
      [] name = "Combined" -> Analyzer_scenario_4(d, bv)

-----------------------------------------------------------------------------
(* solver.Solve()                                                          *)

(* objective.SetCoefficient(var, 1) for var in budget_vars.values();       *)
(* objective.SetMaximization()                                             *)
Objective(bv, x) == SumOver(x, DOMAIN bv)

Holds(x, c) ==
    IF c.sense = "<=" THEN SumOver(x, c.vars) <= c.rhs
    ELSE SumOver(x, c.vars) >= c.rhs

(* the rows of the LP are all in force at once; the solver reads them in   *)
(* the order they were added                                               *)
RECURSIVE RowsHold(_, _, _)
RowsHold(x, cons, n) ==
    IF n > Len(cons) THEN TRUE
    ELSE Holds(x, cons[n]) /\ RowsHold(x, cons, n + 1)

(* a solver in which each Add replaces the row added before it *)
Satisfies_LastRowOnly(x, cons) == Len(cons) = 0 \/ Holds(x, cons[Len(cons)])

Satisfies(x, cons) == RowsHold(x, cons, 1)

(* the lattice that holds the vertices of the feasible region *)
Step(lp, bv) ==
    LET g == GcdOfSet({UpperBound(lp, bv, k) : k \in DOMAIN bv}
                      \cup {lp.constraints[n].rhs : n \in 1..Len(lp.constraints)})
    IN  IF g = 0 THEN 1 ELSE g

Box(lp, bv) ==
    LET g == Step(lp, bv)
        top == SetMax({0} \cup {UpperBound(lp, bv, k) : k \in DOMAIN bv})
        grid == {n * g : n \in 0..(top \div g)}
    IN  {x \in [DOMAIN bv -> grid] : \A k \in DOMAIN bv : x[k] <= UpperBound(lp, bv, k)}

(* a variable the dict no longer holds has no coefficient anywhere: it is  *)
(* free within its bounds, which must only be consistent                   *)
FeasiblePoints(lp, bv) ==
    IF \E i \in DOMAIN lp.vars : lp.vars[i].lb > lp.vars[i].ub THEN {}
    ELSE {x \in Box(lp, bv) : Satisfies(x, lp.constraints)}

BestObjective(bv, F) == SetMax({Objective(bv, x) : x \in F})

OptimalPoints(lp, bv) ==
    LET F == FeasiblePoints(lp, bv)
        best == BestObjective(bv, F)
    IN  {x \in F : Objective(bv, x) = best}

Backends == {"ok", "error"}

SolveStatus(lp, bv, backend) ==
    IF backend = "error" THEN "ABNORMAL"
    ELSE IF FeasiblePoints(lp, bv) = {} THEN "INFEASIBLE"
    ELSE "OPTIMAL"

-----------------------------------------------------------------------------
(* Loading: pd.to_numeric(column, errors='coerce').fillna(0)               *)

(* A cell of BudgetData as the table stores it: a numeral of a finite      *)
(* amount, the marker ###Missing, some other non-numeric text, NULL, or    *)
(* the text inf.                                                           *)
Numeral(n) == [kind |-> "numeral", n |-> n]
Marker(kind) == [kind |-> kind, n |-> 0]

NotANumber == {"###Missing", "text", "NULL"}

(* float('inf'): it stands above every finite amount and every finite sum  *)
(* of amounts the model can form                                           *)
Infinity == 2 * MaxRows * MaxUnits * Unit + 1

(* a float is a number or NaN.  The parser of to_numeric reads a numeral   *)
(* as its value and the text inf as the float infinity; errors='coerce'    *)
(* turns what it cannot parse, and NULL, into NaN.                         *)
to_numeric(cell) ==
    CASE cell.kind = "numeral" -> [nan |-> FALSE, v |-> cell.n]
      [] cell.kind = "inf" -> [nan |-> FALSE, v |-> Infinity]
      [] OTHER -> [nan |-> TRUE, v |-> 0]

(* fillna replaces NaN and nothing else *)
fillna(f, fill) == IF f.nan THEN fill ELSE f.v

Coerce(cell) == fillna(to_numeric(cell), 0)

CoerceRow(raw) ==
    [Dept |-> raw.Dept, Program |-> raw.Program,
     ExpenseCategory |-> raw.ExpenseCategory,
     FY25Budget |-> Coerce(raw.FY25Budget),
     FY24Appropriation |-> Coerce(raw.FY24Appropriation),
     FY23ActualExpense |-> Coerce(raw.FY23ActualExpense)]

CoerceTable(t) == [i \in DOMAIN t |-> CoerceRow(t[i])]

(* the table whose cells are the numerals of a ledger's figures *)
AsStored(ledger) ==
    [i \in DOMAIN ledger |->
        [Dept |-> ledger[i].Dept, Program |-> ledger[i].Program,
         ExpenseCategory |-> ledger[i].ExpenseCategory,
         FY25Budget |-> Numeral(ledger[i].FY25Budget),
         FY24Appropriation |-> Numeral(ledger[i].FY24Appropriation),
         FY23ActualExpense |-> Numeral(ledger[i].FY23ActualExpense)]]

-----------------------------------------------------------------------------
(* State after loading *)

NoFile == [exists |-> FALSE, rows |-> <<>>]
NoResponse == [code |-> 0, error |-> "", rows |-> <<>>]
NoSolver == [vars |-> <<>>, constraints |-> <<>>]

Loaded(ledger, budget) ==
    /\ df = ledger
    /\ runsLeft = budget
    /\ call = "none"
    /\ solver = NoSolver
    /\ budget_vars = <<>>
    /\ status = "NOT_SOLVED"
    /\ values = <<>>
    /\ csv = [n \in ScenarioNames |-> NoFile]
    /\ cwd_plots = {}
    /\ result_df = <<>>
    /\ plot_dir = {}
    /\ response = NoResponse
    /\ source = [reachable |-> TRUE, rows |-> AsStored(ledger)]
    /\ load = "loaded"
    /\ results = <<>>
    /\ solved = <<>>
    /\ batch = "not run"

Init == \E ledger \in Ledgers : Loaded(ledger, MaxRuns)

-----------------------------------------------------------------------------
(* Loading the ledger: fetch_data_from_mysql at the import of opti.py, and *)
(* BudgetScenarioAnalyzer.__init__                                         *)

RawRow(cells, depts, programs, categories) ==
    [Dept : depts, Program : programs, ExpenseCategory : categories,
     FY25Budget : cells, FY24Appropriation : cells, FY23ActualExpense : cells]

Tables(rows) == UNION {[1..n -> rows] : n \in 1..MaxRows}

Unloaded(src, budget) ==
    /\ df = <<>>
    /\ runsLeft = budget
    /\ call = "none"
    /\ solver = NoSolver
    /\ budget_vars = <<>>
    /\ status = "NOT_SOLVED"
    /\ values = <<>>
    /\ csv = [n \in ScenarioNames |-> NoFile]
    /\ cwd_plots = {}
    /\ result_df = <<>>
    /\ plot_dir = {}
    /\ response = NoResponse
    /\ source = src
    /\ load = "pending"
    /\ results = <<>>
    /\ solved = <<>>
    /\ batch = "not run"

(* fetch_data_from_mysql with an except branch that hands back an empty    *)
(* frame, on which the module goes on                                      *)
fetch_data_from_mysql_EmptyFrame ==
    /\ load = "pending"
    /\ IF source.reachable
       THEN /\ df' = CoerceTable(source.rows)
            /\ load' = "loaded"
       ELSE /\ df' = <<>>
            /\ load' = "loaded"
    /\ UNCHANGED <<runsLeft, engineVars, result_df, plot_dir, response,
                   source, batchVars>>

(* opti.py, at import: a connection error makes fetch_data_from_mysql      *)
(* return None, and the module then prints and calls exit()                *)
fetch_data_from_mysql ==
    /\ load = "pending"
    /\ IF source.reachable
       THEN /\ df' = CoerceTable(source.rows)
            /\ load' = "loaded"
       ELSE /\ df' = <<>>
            /\ load' = "exited"
    /\ UNCHANGED <<runsLeft, engineVars, result_df, plot_dir, response,
                   source, batchVars>>

(* BudgetScenarioAnalyzer(db_config): connect, fetch_data, prepare_data;   *)
(* an error of the connection is raised out of the constructor and no      *)
(* analyzer object exists                                                  *)
BudgetScenarioAnalyzer__init__ ==
    /\ load = "pending"
    /\ IF source.reachable
       THEN /\ df' = CoerceTable(source.rows)
            /\ load' = "loaded"
       ELSE /\ df' = <<>>
            /\ load' = "raised"
    /\ UNCHANGED <<runsLeft, engineVars, result_df, plot_dir, response,
                   source, batchVars>>

-----------------------------------------------------------------------------
(* opti.py: scenario_N() = initialize_solver, objective, constraints,      *)
(* solve_and_save                                                          *)

(* AllocationRows with one row per ledger row instead of one per key *)
AllocationRows_PerRow(d, x) ==
    [n \in Rows(d) |->
        [Program |-> d[n].Program, ExpenseCategory |-> d[n].ExpenseCategory,
         FY25Allocation |-> x[KeyOf(d[n])]]]

(* results_df of solve_and_save: one row per key of budget_vars.  Saving   *)
(* the two plots of the result is taken to succeed.                        *)
AllocationRows(d, x) ==
    LET ks == KeyOrder(d)
    IN  [n \in 1..Len(ks) |->
            [Program |-> ks[n][1], ExpenseCategory |-> ks[n][2],
             FY25Allocation |-> x[ks[n]]]]

RunOpti(name) ==
    \E backend \in Backends :
        LET bv == NewBudgetVars(df)
            lp == [NewSolver(df) EXCEPT !.constraints = @ \o OptiConstraints(name, df, bv)]
            st == SolveStatus(lp, bv, backend)
        IN  /\ call' = name
            /\ solver' = lp
            /\ budget_vars' = bv
            /\ status' = st
            /\ IF st = "OPTIMAL"
               THEN \E x \in OptimalPoints(lp, bv) :
                        /\ values' = x
                        /\ csv' = [csv EXCEPT
                                     ![name] = [exists |-> TRUE,
                                                rows |-> AllocationRows(df, x)]]
                        /\ cwd_plots' = cwd_plots \cup {name}
               ELSE /\ values' = <<>>
                    /\ UNCHANGED <<csv, cwd_plots>>

scenario_1 ==
    /\ load = "loaded"
    /\ runsLeft > 0
    /\ runsLeft' = runsLeft - 1
    /\ RunOpti("Scenario_1")
    /\ UNCHANGED <<df, result_df, plot_dir, response, loadVars, batchVars>>

scenario_2 ==
    /\ load = "loaded"
    /\ runsLeft > 0
    /\ runsLeft' = runsLeft - 1
    /\ RunOpti("Scenario_2")
    /\ UNCHANGED <<df, result_df, plot_dir, response, loadVars, batchVars>>

scenario_3 ==
    /\ load = "loaded"
    /\ runsLeft > 0
    /\ runsLeft' = runsLeft - 1
    /\ RunOpti("Scenario_3")
    /\ UNCHANGED <<df, result_df, plot_dir, response, loadVars, batchVars>>

scenario_4 ==
    /\ load = "loaded"
    /\ runsLeft > 0
    /\ runsLeft' = runsLeft - 1
    /\ RunOpti("Scenario_4")
    /\ UNCHANGED <<df, result_df, plot_dir, response, loadVars, batchVars>>

scenario_5 ==
    /\ load = "loaded"
    /\ runsLeft > 0
    /\ runsLeft' = runsLeft - 1
    /\ RunOpti("Scenario_5")
    /\ UNCHANGED <<df, result_df, plot_dir, response, loadVars, batchVars>>

scenario_6 ==
    /\ load = "loaded"
    /\ runsLeft > 0
    /\ runsLeft' = runsLeft - 1
    /\ RunOpti("Scenario_6")
    /\ UNCHANGED <<df, result_df, plot_dir, response, loadVars, batchVars>>

-----------------------------------------------------------------------------
(* BudgetScenarioAnalyzer.solve_scenario(scenario_func)                    *)

AnalyzerRows(d, x) ==
    LET ks == KeyOrder(d)
    IN  [n \in 1..Len(ks) |->
            [Program |-> ks[n][1], ExpenseCategory |-> ks[n][2],
             AllocatedBudget |-> x[ks[n]]]]

(* what one call of solve_scenario may end in: the status of Solve(), the  *)
(* LP it built, the solution values and the frame it returns, which is     *)
(* pd.DataFrame() on every status other than OPTIMAL                       *)
solve_scenario_returns(scenario_func, d, backend) ==
    LET bv == NewBudgetVars(d)
        lp == [NewSolver(d) EXCEPT
                 !.constraints = @ \o AnalyzerConstraints(scenario_func, d, bv)]
        st == SolveStatus(lp, bv, backend)
    IN  IF st = "OPTIMAL"
        THEN {[status |-> st, lp |-> lp, bv |-> bv, values |-> x,
               frame |-> AnalyzerRows(d, x)] : x \in OptimalPoints(lp, bv)}
        ELSE {[status |-> st, lp |-> lp, bv |-> bv, values |-> <<>>,
               frame |-> <<>>]}

solve_scenario(scenario_func) ==
    /\ load = "loaded"
    /\ runsLeft > 0
    /\ runsLeft' = runsLeft - 1
    /\ \E backend \in Backends :
        \E o \in solve_scenario_returns(scenario_func, df, backend) :
            /\ call' = scenario_func
            /\ solver' = o.lp
            /\ budget_vars' = o.bv
            /\ status' = o.status
            /\ values' = o.values
            /\ result_df' = o.frame
    /\ UNCHANGED <<df, csv, cwd_plots, plot_dir, response, loadVars, batchVars>>

Next ==
    \/ scenario_1
    \/ scenario_2
    \/ scenario_3
    \/ scenario_4
    \/ scenario_5
    \/ scenario_6
    \/ \E scenario_func \in AnalyzerScenarios : solve_scenario(scenario_func)

Spec == Init /\ [][Next]_vars

(* Several scenario runs in one process, one after the other, on ledgers   *)
(* whose proposed budgets and appropriations are all set                   *)
MaxSeq == 2

SeqLedgers ==
    {l \in Ledgers : \A i \in Rows(l) :
        l[i].FY25Budget > 0 /\ l[i].FY24Appropriation > 0}

InitSeq == \E ledger \in SeqLedgers : Loaded(ledger, MaxSeq)

SpecSeq == InitSeq /\ [][Next]_vars

-----------------------------------------------------------------------------
(* BudgetScenarioAnalyzer.analyze_all_scenarios                            *)

(* the scenarios dict, in insertion order *)
BatchOrder == <<"Basic", "Category Limits", "Key Programs", "Combined">>

(* plot_total_budget_allocation reads df['Allocated Budget'] of every      *)
(* result first: the frame pd.DataFrame() has no such column and the       *)
(* lookup raises KeyError, which nothing catches.  On frames with rows the *)
(* four plots are taken to succeed.                                        *)
PlotsOutcome(res) ==
    IF \E n \in DOMAIN BatchOrder : res[BatchOrder[n]] = <<>>
    THEN "KeyError" ELSE "returned"

analyze_all_scenarios ==
    /\ load = "loaded"
    /\ runsLeft > 0
    /\ runsLeft' = runsLeft - 1
    /\ \E backend \in [AnalyzerScenarios -> Backends] :
        \E o1 \in solve_scenario_returns(BatchOrder[1], df, backend[BatchOrder[1]]),
           o2 \in solve_scenario_returns(BatchOrder[2], df, backend[BatchOrder[2]]),
           o3 \in solve_scenario_returns(BatchOrder[3], df, backend[BatchOrder[3]]),
           o4 \in solve_scenario_returns(BatchOrder[4], df, backend[BatchOrder[4]]) :
            LET o == <<o1, o2, o3, o4>>
                res == [name \in AnalyzerScenarios |->
                          o[CHOOSE n \in DOMAIN BatchOrder : BatchOrder[n] = name].frame]
            IN  /\ results' = res
                /\ solved' = [name \in AnalyzerScenarios |->
                                o[CHOOSE n \in DOMAIN BatchOrder : BatchOrder[n] = name].status]
                /\ batch' = PlotsOutcome(res)
                /\ result_df' = o4.frame
    /\ call' = "analyze_all_scenarios"
    /\ solver' = NoSolver
    /\ budget_vars' = <<>>
    /\ status' = "NOT_SOLVED"
    /\ values' = <<>>
    /\ UNCHANGED <<df, csv, cwd_plots, plot_dir, response, loadVars>>

NextBatch == analyze_all_scenarios

SpecBatch == Init /\ [][NextBatch]_vars

-----------------------------------------------------------------------------
(* A process from its start: the load, then the scenarios.  The stored     *)
(* cells are numerals and ###Missing markers, which load to the ledgers of *)
(* Ledgers.                                                                *)
LoadCells == {Numeral(a) : a \in Amounts \ {0}} \cup {Marker("###Missing")}

InitLoad ==
    \E reachable \in BOOLEAN :
        \E t \in Tables(RawRow(LoadCells, Depts, Programs, Categories)) :
            Unloaded([reachable |-> reachable, rows |-> t], MaxRuns)

NextLoad ==
    \/ fetch_data_from_mysql
    \/ BudgetScenarioAnalyzer__init__
    \/ Next
    \/ NextBatch

SpecLoad == InitLoad /\ [][NextLoad]_vars

-----------------------------------------------------------------------------
(* The load on tables holding every kind of cell, followed by              *)
(* initialize_solver, which turns each row's FY25Budget into the bounds of *)
(* a variable.  The rows are line items of one program and category.       *)
RawCells ==
    {Numeral(a) : a \in Amounts \ {0}}
        \cup {Marker(kind) : kind \in NotANumber \cup {"inf"}}

initialize_solver ==
    /\ load = "loaded"
    /\ solver = NoSolver
    /\ call' = "initialize_solver"
    /\ solver' = NewSolver(df)
    /\ budget_vars' = NewBudgetVars(df)
    /\ UNCHANGED <<df, runsLeft, status, values, csv, cwd_plots, result_df,
                   plot_dir, response, loadVars, batchVars>>

InitCoerce ==
    \E reachable \in BOOLEAN :
        \E t \in Tables(RawRow(RawCells, {"DeptX"}, {"Public Safety"}, {"Personnel"})) :
            Unloaded([reachable |-> reachable, rows |-> t], MaxRuns)

NextCoerce ==
    \/ fetch_data_from_mysql
    \/ BudgetScenarioAnalyzer__init__
    \/ initialize_solver

SpecCoerce == InitCoerce /\ [][NextCoerce]_vars

-----------------------------------------------------------------------------
(* app.py: the run_scenario request handler.  The server imports opti, so  *)
(* the ledger is loaded once and every request runs on it.                 *)

RequestNames == ScenarioNames \cup {"Scenario_7"}

run_scenario(scenario_name) ==
    /\ load = "loaded"
    /\ runsLeft > 0
    /\ runsLeft' = runsLeft - 1
    /\ IF scenario_name \in ScenarioNames
       THEN /\ RunOpti(scenario_name)
            \* pd.read_csv(result_file) reads whatever file has that name
            /\ IF csv'[scenario_name].exists
               THEN /\ plot_dir' = {scenario_name}
                    /\ response' = [code |-> 200, error |-> "",
                                    rows |-> csv'[scenario_name].rows]
               ELSE /\ plot_dir' = {}
                    /\ response' = [code |-> 500, error |-> "FileNotFoundError",
                                    rows |-> <<>>]
       ELSE \* the plots were removed before the name was looked at
            /\ plot_dir' = {}
            /\ response' = [code |-> 400, error |-> "Invalid scenario selected",
                            rows |-> <<>>]
            /\ call' = "none"
            /\ solver' = NoSolver
            /\ budget_vars' = <<>>
            /\ status' = "NOT_SOLVED"
            /\ values' = <<>>
            /\ UNCHANGED <<csv, cwd_plots>>
    /\ UNCHANGED <<df, result_df, loadVars, batchVars>>

(* the server is exercised on ledgers without missing figures *)
WebLedgers ==
    {l \in Ledgers : \A i \in Rows(l) :
        /\ l[i].FY25Budget > 0
        /\ l[i].FY24Appropriation > 0
        /\ l[i].FY23ActualExpense > 0}

InitWeb == \E ledger \in WebLedgers : Loaded(ledger, MaxRequests)

NextWeb == \E scenario_name \in RequestNames : run_scenario(scenario_name)

SpecWeb == InitWeb /\ [][NextWeb]_vars

-----------------------------------------------------------------------------
(* Vocabulary of the properties, read off the ledger and the state         *)

Cons == solver.constraints
ConsOf(family) == {n \in 1..Len(Cons) : Cons[n].family = family}

RowsOfKey(k) == {i \in Rows(df) : KeyOf(df[i]) = k}

(* the department a variable belongs to: that of the first row of its key *)
DeptOfVariable(k) == df[SetMin(RowsOfKey(k))].Dept
VariablesOfDept(dept) == {k \in DOMAIN budget_vars : DeptOfVariable(k) = dept}
VariablesOfCategory(c) == {k \in DOMAIN budget_vars : k[2] = c}

BoundOf(k) == solver.vars[budget_vars[k]].ub
Allocated(ks) == SumOver(values, ks)
TotalProposed == ColumnSum(df, "FY25Budget", Rows(df))
DeptTotal(dept, figure) ==
    ColumnSum(df, figure, {i \in Rows(df) : df[i].Dept = dept})

OptiCalls == ScenarioNames
AnalyzerCalls == AnalyzerScenarios

-----------------------------------------------------------------------------
(* C1: in every category-cap scenario (opti scenario_3, scenario_6,        *)
(* analyzer scenario_2) the constraint added for category c sums exactly   *)
(* the variables whose key has category c, and none of another category.   *)
CategoryRows(c) == {i \in Rows(df) : df[i].ExpenseCategory = c}

CategoryLimitIs(c, rhs) ==
    CASE call = "Scenario_3" -> 10 * rhs = TotalProposed
      [] call = "Scenario_6" -> 10 * rhs = 3 * TotalProposed
      [] call = "Category Limits" ->
            Cardinality(CategoryRows(c)) * rhs
                = ColumnSum(df, "FY23ActualExpense", CategoryRows(c))

C1_CategoryCapSumsItsCategory ==
    call \in {"Scenario_3", "Scenario_6", "Category Limits"} =>
        /\ \A c \in CategoriesOf(df) : \E n \in ConsOf("category") : Cons[n].group = c
        /\ \A n \in ConsOf("category") :
            /\ Cons[n].vars = VariablesOfCategory(Cons[n].group)
            /\ Cons[n].sense = "<="
            /\ CategoryLimitIs(Cons[n].group, Cons[n].rhs)

-----------------------------------------------------------------------------
(* C2: after initialize_solver the LP holds, for every (program, category) *)
(* key of the ledger, exactly one variable, with lower bound 0 and upper   *)
(* bound the sum of FY25Budget over all ledger rows of that key.           *)
C2_OneVariablePerKeySummedBound ==
    call # "none" =>
        \A k \in Keys(df) :
            /\ Cardinality({i \in DOMAIN solver.vars : solver.vars[i].name = k}) = 1
            /\ k \in DOMAIN budget_vars
            /\ solver.vars[budget_vars[k]].lb = 0
            /\ solver.vars[budget_vars[k]].ub = ColumnSum(df, "FY25Budget", RowsOfKey(k))

-----------------------------------------------------------------------------
(* C3: a run_scenario request is answered with a result table only when   *)
(* the solve of that same request ended optimal, and the table then holds  *)
(* the values of that solve.                                               *)
C3_TableOnlyFromOwnOptimalSolve ==
    response.code = 200 =>
        /\ status = "OPTIMAL"
        /\ response.rows = AllocationRows(df, values)

-----------------------------------------------------------------------------
(* C4: in every scenario with department caps, every optimal result keeps, *)
(* for each department d, the sum allocated to the variables of d within   *)
(* m times the department limit of d (opti: FY24Appropriation totals with  *)
(* m = 1.1, 1, 1.05; analyzer: FY23ActualExpense totals with m = 1).       *)
CapNum == [c \in OptiCalls \cup AnalyzerCalls |->
            IF c = "Scenario_2" THEN 11 ELSE IF c = "Scenario_5" THEN 21 ELSE 1]
CapDen == [c \in OptiCalls \cup AnalyzerCalls |->
            IF c = "Scenario_2" THEN 10 ELSE IF c = "Scenario_5" THEN 20 ELSE 1]
CapFigure == [c \in OptiCalls \cup AnalyzerCalls |->
            IF c \in AnalyzerCalls THEN "FY23ActualExpense" ELSE "FY24Appropriation"]
DeptCapCalls == {"Scenario_2", "Scenario_4", "Scenario_5"} \cup AnalyzerCalls

C4_DepartmentCapsRespected ==
    (status = "OPTIMAL" /\ call \in DeptCapCalls) =>
        \A dept \in DeptsOf(df) :
            CapDen[call] * Allocated(VariablesOfDept(dept))
                <= CapNum[call] * DeptTotal(dept, CapFigure[call])

(* an optimal result of scenario_2 in which a department spends exactly    *)
(* 1.1 times its appropriation, less than its variables would take         *)
C4_Witness ==
    /\ status = "OPTIMAL"
    /\ call = "Scenario_2"
    /\ \E dept \in DeptsOf(df) :
        /\ 10 * Allocated(VariablesOfDept(dept)) = 11 * DeptTotal(dept, "FY24Appropriation")
        /\ Allocated(VariablesOfDept(dept)) < SumOver([k \in DOMAIN budget_vars |-> BoundOf(k)],
                                                      VariablesOfDept(dept))

-----------------------------------------------------------------------------
(* C5: on any ledger opti.scenario_1 (total cap only, m = 1) ends optimal  *)
(* with every variable at its full proposed budget, the total allocated    *)
(* being the sum of FY25Budget over the whole ledger.                      *)
C5_TotalCapOnlyAllocatesWholeLedger ==
    (call = "Scenario_1" /\ status # "ABNORMAL") =>
        /\ status = "OPTIMAL"
        /\ \A k \in DOMAIN budget_vars : values[k] = BoundOf(k)
        /\ Allocated(DOMAIN budget_vars) = TotalProposed

-----------------------------------------------------------------------------
(* C6: when the floor of a designated program's variable                   *)
(* (0.5 x FY24Appropriation of a row of that program) exceeds the cap of   *)
(* the variable's department or the variable's own upper bound, the        *)
(* analyzer scenarios with floors are not optimal and return no row.       *)
FloorCalls == {"Key Programs", "Combined"}

Designated == {key_programs[n] : n \in 1..Len(key_programs)}

FloorOutOfReach ==
    \E i \in Rows(df) :
        /\ df[i].Program \in Designated
        /\ \/ df[i].FY24Appropriation > 2 * BoundOf(KeyOf(df[i]))
           \/ df[i].FY24Appropriation
                > 2 * DeptTotal(DeptOfVariable(KeyOf(df[i])), "FY23ActualExpense")

C6_UnreachableFloorIsInfeasible ==
    (call \in FloorCalls /\ FloorOutOfReach) =>
        /\ status \in {"INFEASIBLE", "ABNORMAL"}
        /\ result_df = <<>>

C6_Witness ==
    /\ call \in FloorCalls
    /\ FloorOutOfReach
    /\ status = "INFEASIBLE"
    /\ \A k \in DOMAIN budget_vars : BoundOf(k) > 0

-----------------------------------------------------------------------------
(* C7: the constraint list of a composed analyzer scenario is the list of  *)
(* the scenario it extends followed by its own additions, so every         *)
(* allocation feasible for it is feasible for the scenario it extends.     *)
Extends(base) ==
    /\ Len(Cons) >= Len(base)
    /\ SubSeq(Cons, 1, Len(base)) = base
    /\ \A x \in Box(solver, budget_vars) :
        Satisfies(x, Cons) => Satisfies(x, base)

C7_ComposedScenarioExtendsBase ==
    /\ call = "Category Limits" => Extends(Analyzer_scenario_1(df, budget_vars))
    /\ call = "Key Programs" => Extends(Analyzer_scenario_1(df, budget_vars))
    /\ call = "Combined" => Extends(Analyzer_scenario_2(df, budget_vars))

(* scenario_4 built on scenario_2 with a floor that cuts the region down *)
C7_Witness ==
    /\ call = "Combined"
    /\ status = "OPTIMAL"
    /\ Len(Cons) > Len(Analyzer_scenario_2(df, budget_vars))
    /\ \E x \in Box(solver, budget_vars) :
        /\ Satisfies(x, Analyzer_scenario_2(df, budget_vars))
        /\ ~Satisfies(x, Cons)

-----------------------------------------------------------------------------
(* C8: applying the constraint families of a scenario (total cap,          *)
(* department caps, category caps, floors) in any other order gives the    *)
(* same solve status and the same optimal objective value.                 *)
Families == {Cons[n].family : n \in 1..Len(Cons)}

RECURSIVE InOrder(_, _)
InOrder(order, n) ==
    IF n > Len(order) THEN <<>>
    ELSE SelectSeq(Cons, LAMBDA c : c.family = order[n]) \o InOrder(order, n + 1)

FamilyOrders ==
    {order \in [1..Cardinality(Families) -> Families] :
        \A a, b \in DOMAIN order : a # b => order[a] # order[b]}

SameOutcome(cons) ==
    LET lp == [solver EXCEPT !.constraints = cons]
    IN  /\ SolveStatus(lp, budget_vars, "ok") = status
        /\ status = "OPTIMAL" =>
            BestObjective(budget_vars, FeasiblePoints(lp, budget_vars))
                = Objective(budget_vars, values)

-----------------------------------------------------------------------------
(* C9: a department with an entry in the derived limits but no variable    *)
(* resolved to it changes nothing: the solve ends as it does with that     *)
(* entry removed.                                                          *)
EmptyDepts == {dept \in DeptsOf(df) : VariablesOfDept(dept) = {}}

WithoutDept(dept) ==
    SelectSeq(Cons, LAMBDA c : ~(c.family = "dept" /\ c.group = dept))

C9_LimitWithoutVariablesIsInert ==
    (call \in DeptCapCalls /\ status # "ABNORMAL") =>
        \A dept \in EmptyDepts : SameOutcome(WithoutDept(dept))

(* scenario_2 on a ledger whose second department has a positive limit and *)
(* no variable of its own, while the variable is cut by its department     *)
C9_Witness ==
    /\ call = "Scenario_2"
    /\ status = "OPTIMAL"
    /\ \E dept \in EmptyDepts :
        /\ DeptTotal(dept, "FY24Appropriation") > 0
        /\ \E n \in ConsOf("dept") : Cons[n].group = dept
    /\ Allocated(DOMAIN budget_vars) > 0

-----------------------------------------------------------------------------
(* C10: in opti.scenario_4 (total cap, department caps on appropriation,   *)
(* m = 1) a department whose limit is below the sum of the upper bounds of *)
(* its variables is allocated exactly its limit, every variable staying    *)
(* within [0, upper bound].                                                *)
C10_BindingDepartmentCapIsMet ==
    (call = "Scenario_4" /\ status = "OPTIMAL") =>
        /\ \A k \in DOMAIN budget_vars : 0 <= values[k] /\ values[k] <= BoundOf(k)
        /\ \A dept \in DeptsOf(df) :
            DeptTotal(dept, "FY24Appropriation")
                < SumOver([k \in DOMAIN budget_vars |-> BoundOf(k)], VariablesOfDept(dept))
            => Allocated(VariablesOfDept(dept)) = DeptTotal(dept, "FY24Appropriation")

C10_Witness ==
    /\ call = "Scenario_4"
    /\ status = "OPTIMAL"
    /\ \E dept \in DeptsOf(df) :
        /\ DeptTotal(dept, "FY24Appropriation") > 0
        /\ DeptTotal(dept, "FY24Appropriation")
            < SumOver([k \in DOMAIN budget_vars |-> BoundOf(k)], VariablesOfDept(dept))
        /\ Cardinality(VariablesOfDept(dept)) = 2

-----------------------------------------------------------------------------
(* C11: in a batch run over all scenarios a scenario whose solve is not    *)
(* optimal does not abort the batch: all four scenarios are solved, the    *)
(* batch completes, and it returns the frames of the optimal scenarios     *)
(* next to an entry for each scenario that failed.                         *)
C11_FailedScenarioDoesNotAbortBatch ==
    batch # "not run" =>
        /\ DOMAIN solved = AnalyzerScenarios
        /\ \A name \in AnalyzerScenarios : solved[name] # "NOT_SOLVED"
        /\ batch = "returned"
        /\ DOMAIN results = AnalyzerScenarios
        /\ \A name \in AnalyzerScenarios :
            solved[name] = "OPTIMAL" => Len(results[name]) = Cardinality(Keys(df))

-----------------------------------------------------------------------------
(* C12: what a solve hands to its caller tells the statuses apart: two     *)
(* solves that ended in different statuses (optimal, infeasible,           *)
(* unbounded, solver error) are handed back as different outcomes.         *)
C12_DifferentStatusesDifferentOutcomes ==
    batch # "not run" =>
        \A a, b \in AnalyzerScenarios :
            solved[a] # solved[b] => results[a] # results[b]

-----------------------------------------------------------------------------
(* C13: in the analyzer scenarios with a funding floor (scenario_3 and     *)
(* scenario_4) every optimal result gives the variable of each row of      *)
(* "Mayor's Administration" and "Public Safety" at least half the          *)
(* FY24Appropriation of that row, and no variable of another program has   *)
(* a floor above 0.                                                        *)
FlooredPrograms == {"Mayor's Administration", "Public Safety"}

C13_FloorsHoldForDesignatedOnly ==
    (call \in FloorCalls /\ status = "OPTIMAL") =>
        /\ \A i \in Rows(df) :
            df[i].Program \in FlooredPrograms =>
                2 * values[KeyOf(df[i])] >= df[i].FY24Appropriation
        /\ \A i \in DOMAIN solver.vars : solver.vars[i].lb = 0
        /\ \A n \in 1..Len(Cons) :
            Cons[n].sense = ">=" =>
                \A k \in Cons[n].vars : k[1] \in FlooredPrograms

(* a floor that binds: the designated program is held at half its          *)
(* appropriation, below its proposed budget, next to a program without a   *)
(* floor that takes the rest of the department's cap                       *)
C13_Witness ==
    /\ call \in FloorCalls
    /\ status = "OPTIMAL"
    /\ \E k \in DOMAIN budget_vars :
        /\ k[1] \in FlooredPrograms
        /\ \E i \in RowsOfKey(k) :
            df[i].FY24Appropriation > 0 /\ 2 * values[k] = df[i].FY24Appropriation
        /\ values[k] < BoundOf(k)
    /\ \E k \in DOMAIN budget_vars : k[1] \notin FlooredPrograms /\ values[k] > 0

-----------------------------------------------------------------------------
(* C14: a solve produces result rows exactly when its status is optimal;   *)
(* there is then exactly one row per key of budget_vars, with an amount    *)
(* between 0 and the upper bound of the key's variable.  A solve that is   *)
(* not optimal leaves no row and no result file.                           *)
RowKeys(rows) == {<<rows[n].Program, rows[n].ExpenseCategory>> : n \in DOMAIN rows}

OneRowPerKey(rows) ==
    /\ Len(rows) = Cardinality(DOMAIN budget_vars)
    /\ RowKeys(rows) = DOMAIN budget_vars

FilesWritten == {name \in ScenarioNames : csv[name].exists}

C14_RowsExactlyWhenOptimal ==
    /\ call \in OptiCalls =>
        /\ FilesWritten = IF status = "OPTIMAL" THEN {call} ELSE {}
        /\ status = "OPTIMAL" =>
            /\ OneRowPerKey(csv[call].rows)
            /\ \A n \in DOMAIN csv[call].rows :
                LET row == csv[call].rows[n]
                    k == <<row.Program, row.ExpenseCategory>>
                IN  0 <= row.FY25Allocation /\ row.FY25Allocation <= BoundOf(k)
    /\ call \in AnalyzerCalls =>
        /\ FilesWritten = {}
        /\ status # "OPTIMAL" => result_df = <<>>
        /\ status = "OPTIMAL" =>
            /\ OneRowPerKey(result_df)
            /\ \A n \in DOMAIN result_df :
                LET row == result_df[n]
                    k == <<row.Program, row.ExpenseCategory>>
                IN  0 <= row.AllocatedBudget /\ row.AllocatedBudget <= BoundOf(k)

(* an optimal solve on a ledger with two rows of one key: one file, one    *)
(* row, a positive amount                                                  *)
C14_Witness ==
    /\ call \in OptiCalls
    /\ status = "OPTIMAL"
    /\ Len(df) = 2
    /\ Len(csv[call].rows) = 1
    /\ csv[call].rows[1].FY25Allocation > 0

-----------------------------------------------------------------------------
(* C15: a scenario run leaves the loaded ledger as it was and builds its   *)
(* own solver and variables, so after any sequence of runs the solver      *)
(* holds one fresh variable per ledger row and only the constraints of the *)
(* scenario just run, and the status and the optimal objective are those   *)
(* of that scenario alone, whatever was run before.                        *)
OwnConstraints ==
    IF call \in OptiCalls THEN OptiConstraints(call, df, budget_vars)
    ELSE AnalyzerConstraints(call, df, budget_vars)

FreshVariables ==
    /\ Len(solver.vars) = Len(df)
    /\ \A i \in Rows(df) :
        solver.vars[i] = [name |-> KeyOf(df[i]), lb |-> 0, ub |-> df[i].FY25Budget]
    /\ DOMAIN budget_vars = Keys(df)

C15_RunsDoNotDependOnEarlierRuns ==
    /\ df = CoerceTable(source.rows)
    /\ call \in OptiCalls \cup AnalyzerCalls =>
        /\ FreshVariables
        /\ Cons = OwnConstraints
        /\ status # "ABNORMAL" => SameOutcome(OwnConstraints)

(* a second run: opti scenario_4, optimal, in a process whose first run    *)
(* was an analyzer scenario that returned rows                             *)
C15_Witness ==
    /\ runsLeft = MaxSeq - 2
    /\ call = "Scenario_4"
    /\ status = "OPTIMAL"
    /\ result_df # <<>>
    /\ FilesWritten = {"Scenario_4"}
    /\ Allocated(DOMAIN budget_vars) > 0

-----------------------------------------------------------------------------
(* C16: when the data source cannot be reached the run stops with the      *)
(* load: no scenario is built or solved and no result file is written, at  *)
(* any later time.                                                         *)
NothingRun ==
    /\ call = "none"
    /\ solver = NoSolver
    /\ status = "NOT_SOLVED"
    /\ FilesWritten = {}
    /\ cwd_plots = {}
    /\ result_df = <<>>
    /\ batch = "not run"

C16_NoRunAfterFailedLoad ==
    /\ ~source.reachable => NothingRun
    /\ load # "loaded" => NothingRun

(* the import of opti.py ended in exit() on an unreachable source whose    *)
(* table holds amounts                                                     *)
C16_Witness ==
    /\ ~source.reachable
    /\ load = "exited"
    /\ runsLeft > 0
    /\ \E i \in DOMAIN source.rows : source.rows[i].FY25Budget.kind = "numeral"

-----------------------------------------------------------------------------
(* C17: after loading, every FY25Budget, FY24Appropriation and             *)
(* FY23ActualExpense cell that is not a numeral of a finite amount (a      *)
(* missing marker, other text, NULL, an infinite value) is 0 in the        *)
(* ledger: it adds 0 to the sum of its column, from which every limit is   *)
(* derived, and the variable of a row with such a FY25Budget has bounds    *)
(* [0, 0].                                                                 *)
Figures == {"FY25Budget", "FY24Appropriation", "FY23ActualExpense"}

Unparsable(cell) == cell.kind # "numeral"

FiniteValue(cell) == IF cell.kind = "numeral" THEN cell.n ELSE 0

C17_UnparsableValuesLoadAsZero ==
    load = "loaded" =>
        /\ \A i \in DOMAIN source.rows, col \in Figures :
            Unparsable(source.rows[i][col]) => df[i][col] = 0
        /\ \A col \in Figures :
            ColumnSum(df, col, Rows(df))
                = SumOver([i \in DOMAIN source.rows |-> FiniteValue(source.rows[i][col])],
                          DOMAIN source.rows)
        /\ call = "initialize_solver" =>
            \A i \in DOMAIN source.rows :
                Unparsable(source.rows[i].FY25Budget) =>
                    solver.vars[i].lb = 0 /\ solver.vars[i].ub = 0

-----------------------------------------------------------------------------
(* C18: a run_scenario request whose name is none of Scenario_1 ..         *)
(* Scenario_6 is answered 400, solves nothing and leaves every result file *)
(* and every plot file as it was.                                          *)
C18_InvalidRequestChangesNothing ==
    [][response'.code = 400 =>
        /\ call' = "none"
        /\ status' = "NOT_SOLVED"
        /\ csv' = csv
        /\ cwd_plots' = cwd_plots
        /\ plot_dir' = plot_dir]_vars

-----------------------------------------------------------------------------
(* C19: in every scenario with department caps each variable of            *)
(* budget_vars is in the cap constraint of exactly one department, the     *)
(* department of the first ledger row with its key, also when rows of      *)
(* several departments have that key: none is left out, none counted       *)
(* twice.                                                                  *)
CapsHolding(k) == {n \in ConsOf("dept") : k \in Cons[n].vars}

C19_EachVariableInOneDepartmentCap ==
    call \in DeptCapCalls =>
        \A k \in DOMAIN budget_vars :
            /\ Cardinality(CapsHolding(k)) = 1
            /\ \A n \in CapsHolding(k) : Cons[n].group = DeptOfVariable(k)

(* a key with rows in two departments, the later row in the department     *)
(* that comes first in the loop over the limits                            *)
C19_Witness ==
    /\ call \in DeptCapCalls
    /\ status = "OPTIMAL"
    /\ \E k \in DOMAIN budget_vars :
        /\ {df[i].Dept : i \in RowsOfKey(k)} = Depts
        /\ DeptOfVariable(k) = "DeptY"
        /\ values[k] > 0

-----------------------------------------------------------------------------
(* C20: on a ledger with non-negative figures the optimal totals of the    *)
(* department-cap scenarios of opti follow their multipliers and stay      *)
(* within the uncapped scenario:                                           *)
(*   total(scenario_4) <= total(scenario_5) <= total(scenario_2)           *)
(*                     <= total(scenario_1),                               *)
(* and none of the four is infeasible.                                     *)
OrderedCalls == {"Scenario_1", "Scenario_2", "Scenario_4", "Scenario_5"}

FeasibleFor(name) ==
    FeasiblePoints([solver EXCEPT !.constraints = OptiConstraints(name, df, budget_vars)],
                   budget_vars)

(* the total of the run just made is the one it allocated; the totals of   *)
(* the other scenarios are their optima on the same ledger                 *)
OptimalTotal(name) ==
    IF name = call THEN Allocated(DOMAIN budget_vars)
    ELSE BestObjective(budget_vars, FeasibleFor(name))

C20_TotalsOrderedByMultiplier ==
    (call \in OrderedCalls /\ status # "ABNORMAL") =>
        /\ status = "OPTIMAL"
        /\ \A name \in OrderedCalls : FeasibleFor(name) # {}
        /\ OptimalTotal("Scenario_4") <= OptimalTotal("Scenario_5")
        /\ OptimalTotal("Scenario_5") <= OptimalTotal("Scenario_2")
        /\ OptimalTotal("Scenario_2") <= OptimalTotal("Scenario_1")

(* a run of scenario_5 on a ledger where every step of the chain is strict *)
C20_Witness ==
    /\ call = "Scenario_5"
    /\ status = "OPTIMAL"
    /\ 0 < OptimalTotal("Scenario_4")
    /\ OptimalTotal("Scenario_4") < OptimalTotal("Scenario_5")
    /\ OptimalTotal("Scenario_5") < OptimalTotal("Scenario_2")
    /\ OptimalTotal("Scenario_2") < OptimalTotal("Scenario_1")

=============================================================================
